---- MODULE Spec2Model ----
(***************************************************************************)
(* Model of notebooks/03_evaluate/comparison.ipynb: a sequential sweep     *)
(* over data_sizes x algorithms that runs one external notebook per pair   *)
(* through papermill, reads the recorded outputs back from a single        *)
(* scratch file, builds one result row per pair and, in a last cell,       *)
(* removes the scratch directory.                                          *)
(*                                                                         *)
(* The cells run in order, as "Run All" / papermill / nbconvert run them:  *)
(* an exception raised by a cell stops the run, later cells are not run.   *)
(***************************************************************************)
EXTENDS Integers, Sequences, FiniteSets, TLC

VARIABLES
    data_sizes,     \* cell 3: list of dataset-size labels
    algorithms,     \* cell 3: list of algorithm identifiers
    notebooks,      \* cell 3: mapping identifier -> notebook path
    pc,             \* which cell is running / how the run ended
    pos,            \* number of loop iterations completed
    df_results,     \* the results table, a sequence of rows
    temp_dir,       \* TRUE while the directory temp_path exists
    output,         \* content of the file output_path (the scratch slot)
    invocations,    \* log of the pm.execute_notebook calls made so far
    error,          \* the exception that stopped the run, "none" if none
    rmtree_result   \* what shutil.rmtree did in the cleanup cell

vars == <<data_sizes, algorithms, notebooks, pc, pos, df_results, temp_dir,
          output, invocations, error, rmtree_result>>

----------------------------------------------------------------------------
(* Bounds of the model *)

\* longest list of dataset labels tried
MaxData == 2
\* longest list of algorithm identifiers tried
MaxAlgos == 2
\* most field names spelled differently in the second of two notebooks
MaxRespelled == 1

----------------------------------------------------------------------------
(* Configuration, cell 3 *)

k == 10

\* the MovieLens sizes, the two of the source first
DataLabels == <<"100k", "1m", "10m", "20m">>

\* the lists of dataset sizes tried
DataSizeLists == {SubSeq(DataLabels, 1, m) : m \in 0..MaxData}

\* the mapping of the source
NotebooksSrc ==
    [a \in {"als", "sar", "svd", "fast", "ncf", "rbm"} |->
        CASE a = "als"  -> "../00_quick_start/als_movielens.ipynb"
          [] a = "sar"  -> "../00_quick_start/sar_movielens.ipynb"
          [] a = "svd"  -> "../02_model/surprise_svd_deep_dive.ipynb"
          [] a = "fast" -> "../00_quick_start/fastai_movielens.ipynb"
          [] a = "ncf"  -> "../00_quick_start/ncf_movielens.ipynb"
          [] a = "rbm"  -> "../00_quick_start/rbm_movielens.ipynb"]

\* an identifier outside both family lists of the dispatch
OtherAlgo == "knn"

\* the mapping of the source with one more entry, for OtherAlgo; it is
\* tried with the lists that use that entry
NotebooksExt ==
    [a \in DOMAIN NotebooksSrc \cup {OtherAlgo} |->
        IF a = OtherAlgo THEN "../00_quick_start/knn_movielens.ipynb"
                         ELSE NotebooksSrc[a]]

AlgoIds == DOMAIN NotebooksSrc \cup {OtherAlgo}

\* lists without repetition, of length at most n, over the set S
Lists(S, n) ==
    UNION {{s \in [1..m -> S] : \A p, q \in 1..m : p # q => s[p] # s[q]} :
           m \in 0..n}

----------------------------------------------------------------------------
(* Recorded outputs of an executed notebook *)

RankingFields == {"map", "ndcg", "precision", "recall"}
RatingFields == {"rmse", "mae", "rsquared", "exp_var"}
TimeFields == {"train_time", "test_time"}
Fields == RankingFields \cup RatingFields \cup TimeFields

\* the upper-case spelling of a field name
Upper(f) ==
    CASE f = "map" -> "MAP"
      [] f = "ndcg" -> "NDCG"
      [] f = "precision" -> "PRECISION"
      [] f = "recall" -> "RECALL"
      [] f = "rmse" -> "RMSE"
      [] f = "mae" -> "MAE"
      [] f = "rsquared" -> "RSQUARED"
      [] f = "exp_var" -> "EXP_VAR"
      [] f = "train_time" -> "TRAIN_TIME"
      [] f = "test_time" -> "TEST_TIME"

\* str.lower() on the names that occur
Lower(n) ==
    CASE n = "MAP" -> "map"
      [] n = "NDCG" -> "ndcg"
      [] n = "PRECISION" -> "precision"
      [] n = "RECALL" -> "recall"
      [] n = "RMSE" -> "rmse"
      [] n = "MAE" -> "mae"
      [] n = "RSQUARED" -> "rsquared"
      [] n = "EXP_VAR" -> "exp_var"
      [] n = "TRAIN_TIME" -> "train_time"
      [] n = "TEST_TIME" -> "test_time"
      [] OTHER -> n

\* np.nan
NaN == <<"nan", "", "", "">>

\* the value a run of algorithm a on dataset d reports for field f: the
\* sweep never inspects it, it only copies it
Val(a, d, f) == <<"num", a, d, f>>

\* the fields that may be recorded under an upper-case name
CaseFields == {"map", "rmse"}

\* the records of a run that reports the fields of base, in lower case
Plain(a, d, base) == [n \in base |-> Val(a, d, n)]

\* all fields but f
Without(a, d, f) == Plain(a, d, Fields \ {f})

\* all fields, field f under its upper-case name
Uppercased(a, d, f) ==
    [n \in (Fields \ {f}) \cup {Upper(f)} |-> Val(a, d, Lower(n))]

\* all fields, field f twice, in lower and in upper case
Doubled(a, d, f) == [n \in Fields \cup {Upper(f)} |-> Val(a, d, Lower(n))]

\* what a notebook run for (d, a) may leave in the output notebook
Outputs(a, d) ==
    {Plain(a, d, Fields), Plain(a, d, Fields \ RatingFields)}
    \cup {Without(a, d, f) : f \in Fields}
    \cup {Uppercased(a, d, f) : f \in CaseFields}
    \cup {Doubled(a, d, f) : f \in CaseFields}

NoRecords == [n \in {} |-> NaN]

\* the file output_path does not exist
NoFile == [by |-> 0, ok |-> FALSE, recs |-> NoRecords]

\* the file output_path as written by invocation number n
Written(n, ok, recs) == [by |-> n, ok |-> ok, recs |-> recs]

----------------------------------------------------------------------------
(* The sweep, cell 4 *)

\* variant of Pairs: the sweep stops after the first dataset label
PairsFirstDataOnly(ds, al) ==
    [n \in 1..(IF Len(ds) = 0 THEN 0 ELSE Len(al)) |->
        [data_size |-> ds[1], algorithm |-> al[n]]]

\* variant of Pairs: the two loops are swapped
PairsAlgorithmMajor(ds, al) ==
    [n \in 1..(Len(ds) * Len(al)) |->
        [data_size |-> ds[((n - 1) % Len(ds)) + 1],
         algorithm |-> al[((n - 1) \div Len(ds)) + 1]]]

\* for data_size in data_sizes: for algorithm in algorithms: the pairs in
\* the order the nested loops visit them
Pairs(ds, al) ==
    [n \in 1..(Len(ds) * Len(al)) |->
        [data_size |-> ds[((n - 1) \div Len(al)) + 1],
         algorithm |-> al[((n - 1) % Len(al)) + 1]]]

\* variant of DfEval: the column names are left as recorded
DfEvalKeepingCase(recs) == [n \in DOMAIN recs |-> [col |-> n, value |-> recs[n]]]

\* df_eval after the transpose, the rename and the lower-casing of the
\* column names: one column per record
DfEval(recs) == [n \in DOMAIN recs |-> [col |-> Lower(n), value |-> recs[n]]]

\* the columns df_eval[f] selects
Columns(df_eval, f) == {n \in DOMAIN df_eval : df_eval[n].col = f}

\* the exception df_eval[f].item() raises, "none" if it returns a value
ItemError(df_eval, f) ==
    CASE Columns(df_eval, f) = {} -> "KeyError"
      [] Cardinality(Columns(df_eval, f)) > 1 -> "AttributeError"
      [] OTHER -> "none"

\* df_eval[f].item()
Item(df_eval, f) == df_eval[CHOOSE n \in Columns(df_eval, f) : TRUE].value

RatingAware == {"als", "svd", "fast"}
RankingOnly == {"sar", "rbm", "ncf"}

\* the lookups of the first branch, in the order the dict evaluates them
RatingReads ==
    <<"map", "ndcg", "precision", "recall", "rmse", "mae", "rsquared",
      "exp_var", "train_time", "test_time">>

\* the lookups of the second branch
RankingReads ==
    <<"map", "ndcg", "precision", "recall", "train_time", "test_time">>

\* the lookups made for an algorithm of either family
Reads(algorithm) ==
    IF algorithm \in RatingAware THEN RatingReads ELSE RankingReads

\* the exception of the first lookup of reads that raises, "none" if none
FirstError(df_eval, reads) ==
    IF \A p \in DOMAIN reads : ItemError(df_eval, reads[p]) = "none"
    THEN "none"
    ELSE LET p == CHOOSE q \in DOMAIN reads :
                      /\ ItemError(df_eval, reads[q]) # "none"
                      /\ \A r \in 1..(q - 1) :
                            ItemError(df_eval, reads[r]) = "none"
         IN ItemError(df_eval, reads[p])

\* variant of RatingRow: the rating fields are set to np.nan here too
RatingRowWithNan(data_size, algorithm, df_eval) ==
    [Data |-> data_size, Algo |-> algorithm, K |-> k,
     MAP |-> Item(df_eval, "map"),
     nDCG_at_k |-> Item(df_eval, "ndcg"),
     Precision_at_k |-> Item(df_eval, "precision"),
     Recall_at_k |-> Item(df_eval, "recall"),
     RMSE |-> NaN,
     MAE |-> NaN,
     R2 |-> NaN,
     Explained_Variance |-> NaN,
     Train_time |-> Item(df_eval, "train_time"),
     Test_time |-> Item(df_eval, "test_time")]

\* the row of the branch for "als", "svd", "fast"
RatingRow(data_size, algorithm, df_eval) ==
    [Data |-> data_size, Algo |-> algorithm, K |-> k,
     MAP |-> Item(df_eval, "map"),
     nDCG_at_k |-> Item(df_eval, "ndcg"),
     Precision_at_k |-> Item(df_eval, "precision"),
     Recall_at_k |-> Item(df_eval, "recall"),
     RMSE |-> Item(df_eval, "rmse"),
     MAE |-> Item(df_eval, "mae"),
     R2 |-> Item(df_eval, "rsquared"),
     Explained_Variance |-> Item(df_eval, "exp_var"),
     Train_time |-> Item(df_eval, "train_time"),
     Test_time |-> Item(df_eval, "test_time")]

\* variant of RankingRow: a reported rmse is kept when there is one
RankingRowKeepingRmse(data_size, algorithm, df_eval) ==
    [Data |-> data_size, Algo |-> algorithm, K |-> k,
     MAP |-> Item(df_eval, "map"),
     nDCG_at_k |-> Item(df_eval, "ndcg"),
     Precision_at_k |-> Item(df_eval, "precision"),
     Recall_at_k |-> Item(df_eval, "recall"),
     RMSE |-> IF ItemError(df_eval, "rmse") = "none"
              THEN Item(df_eval, "rmse") ELSE NaN,
     MAE |-> NaN,
     R2 |-> NaN,
     Explained_Variance |-> NaN,
     Train_time |-> Item(df_eval, "train_time"),
     Test_time |-> Item(df_eval, "test_time")]

\* the row of the branch for "sar", "rbm", "ncf"
RankingRow(data_size, algorithm, df_eval) ==
    [Data |-> data_size, Algo |-> algorithm, K |-> k,
     MAP |-> Item(df_eval, "map"),
     nDCG_at_k |-> Item(df_eval, "ndcg"),
     Precision_at_k |-> Item(df_eval, "precision"),
     Recall_at_k |-> Item(df_eval, "recall"),
     RMSE |-> NaN,
     MAE |-> NaN,
     R2 |-> NaN,
     Explained_Variance |-> NaN,
     Train_time |-> Item(df_eval, "train_time"),
     Test_time |-> Item(df_eval, "test_time")]

\* variant of DispatchError: the second branch is a plain else
DispatchErrorElseRanking(algorithm, df_eval) ==
    FirstError(df_eval, Reads(algorithm))

\* the exception the if / elif / else raises, "none" if it builds a row
DispatchError(algorithm, df_eval) ==
    IF algorithm \in RatingAware \cup RankingOnly
    THEN FirstError(df_eval, Reads(algorithm))
    ELSE "ValueError"

\* df_result
DfResult(data_size, algorithm, df_eval) ==
    IF algorithm \in RatingAware
    THEN RatingRow(data_size, algorithm, df_eval)
    ELSE RankingRow(data_size, algorithm, df_eval)

----------------------------------------------------------------------------
(* State after cells 1 to 3 and df_results = pd.DataFrame() *)

NoError == [type |-> "none", at |-> "none"]

Raised(type, at) == [type |-> type, at |-> at]

Init ==
    /\ data_sizes \in DataSizeLists
    /\ algorithms \in Lists(AlgoIds, MaxAlgos)
    /\ notebooks \in {NotebooksSrc} \cup
                     {NotebooksExt : q \in {p \in DOMAIN algorithms :
                                               algorithms[p] = OtherAlgo}}
    /\ pc = "sweep"
    /\ pos = 0
    /\ df_results = <<>>
    /\ temp_dir = TRUE
    /\ output = NoFile
    /\ invocations = <<>>
    /\ error = NoError
    /\ rmtree_result = "none"

\* the number of iterations of a sweep that is not aborted
Total == Len(Pairs(data_sizes, algorithms))

\* the pair of the iteration that runs next
Current == Pairs(data_sizes, algorithms)[pos + 1]

\* variant of Call: the dataset size passed is the first of the list
CallFirstSize(pair, ok) ==
    [notebook |-> notebooks[pair.algorithm],
     output_path |-> "output.ipynb",
     TOP_K |-> k,
     MOVIELENS_DATA_SIZE |-> data_sizes[1],
     algorithm |-> pair.algorithm,
     ok |-> ok]

\* the call pm.execute_notebook(notebooks[algorithm], output_path,
\* parameters = dict(TOP_K=k, MOVIELENS_DATA_SIZE=data_size))
Call(pair, ok) ==
    [notebook |-> notebooks[pair.algorithm],
     output_path |-> "output.ipynb",
     TOP_K |-> k,
     MOVIELENS_DATA_SIZE |-> pair.data_size,
     algorithm |-> pair.algorithm,
     ok |-> ok]

config == <<data_sizes, algorithms, notebooks>>

\* variant of UnmappedAlgorithm: the pair is skipped and the sweep goes on
UnmappedAlgorithmSkipped ==
    /\ pc = "sweep"
    /\ pos < Total
    /\ Current.algorithm \notin DOMAIN notebooks
    /\ pos' = pos + 1
    /\ UNCHANGED <<config, pc, error, df_results, temp_dir, output,
                   invocations, rmtree_result>>

\* notebooks[algorithm] raises KeyError: the identifier is not a key
UnmappedAlgorithm ==
    /\ pc = "sweep"
    /\ pos < Total
    /\ Current.algorithm \notin DOMAIN notebooks
    /\ pc' = "sweep_failed"
    /\ error' = Raised("KeyError", "notebooks")
    /\ UNCHANGED <<config, pos, df_results, temp_dir, output, invocations,
                   rmtree_result>>

\* variant of ExecuteFails: the exception is swallowed and the row is built
\* from whatever the file output_path holds
ExecuteFailsReadsSlot ==
    /\ pc = "sweep"
    /\ pos < Total
    /\ Current.algorithm \in DOMAIN notebooks
    /\ invocations' = Append(invocations, Call(Current, FALSE))
    /\ output' = output
    /\ IF /\ output.ok
          /\ DispatchError(Current.algorithm, DfEval(output.recs)) = "none"
       THEN /\ df_results' =
                 Append(df_results,
                        DfResult(Current.data_size, Current.algorithm,
                                 DfEval(output.recs)))
            /\ pos' = pos + 1
            /\ UNCHANGED <<pc, error>>
       ELSE /\ pc' = "sweep_failed"
            /\ error' = Raised("PapermillExecutionError", "execute_notebook")
            /\ UNCHANGED <<pos, df_results>>
    /\ UNCHANGED <<config, temp_dir, rmtree_result>>

\* variant of ExecuteFails: the exception is swallowed, the sweep goes on
ExecuteFailsSkipsPair ==
    /\ pc = "sweep"
    /\ pos < Total
    /\ Current.algorithm \in DOMAIN notebooks
    /\ invocations' = Append(invocations, Call(Current, FALSE))
    /\ \/ output' = output
       \/ /\ temp_dir
          /\ output' = Written(Len(invocations) + 1, FALSE, NoRecords)
    /\ pos' = pos + 1
    /\ UNCHANGED <<config, pc, error, df_results, temp_dir, rmtree_result>>

\* pm.execute_notebook raises: the exception leaves the loop and the cell.
\* papermill may or may not have written the output notebook by then.
ExecuteFails ==
    /\ pc = "sweep"
    /\ pos < Total
    /\ Current.algorithm \in DOMAIN notebooks
    /\ invocations' = Append(invocations, Call(Current, FALSE))
    /\ \/ output' = output
       \/ /\ temp_dir
          /\ output' = Written(Len(invocations) + 1, FALSE, NoRecords)
    /\ pc' = "sweep_failed"
    /\ error' = Raised("PapermillExecutionError", "execute_notebook")
    /\ UNCHANGED <<config, pos, df_results, temp_dir, rmtree_result>>

\* variant of AppendRow: the new row is put in front of the table
PrependRow(table, row) == <<row>> \o table

\* df_results.append(df_result, ignore_index=True)
AppendRow(table, row) == Append(table, row)

\* variant of Iteration: a lookup that raises makes the sweep skip the pair
IterationSkipsBadOutput ==
    /\ pc = "sweep"
    /\ pos < Total
    /\ Current.algorithm \in DOMAIN notebooks
    /\ temp_dir
    /\ \E recs \in Outputs(Current.algorithm, Current.data_size) :
          LET df_eval == DfEval(recs)
              err == DispatchError(Current.algorithm, df_eval)
          IN /\ output' = Written(Len(invocations) + 1, TRUE, recs)
             /\ invocations' = Append(invocations, Call(Current, TRUE))
             /\ IF err = "none"
                THEN /\ df_results' =
                          AppendRow(df_results,
                                    DfResult(Current.data_size,
                                             Current.algorithm, df_eval))
                     /\ pos' = pos + 1
                     /\ UNCHANGED <<pc, error>>
                ELSE IF err = "ValueError"
                THEN /\ pc' = "sweep_failed"
                     /\ error' = Raised(err, "dispatch")
                     /\ UNCHANGED <<pos, df_results>>
                ELSE /\ pos' = pos + 1
                     /\ UNCHANGED <<pc, error, df_results>>
    /\ UNCHANGED <<config, temp_dir, rmtree_result>>

\* one iteration whose pm.execute_notebook returns: the output notebook is
\* written, read back, and the row is built and appended, or building the
\* row raises
Iteration ==
    /\ pc = "sweep"
    /\ pos < Total
    /\ Current.algorithm \in DOMAIN notebooks
    /\ temp_dir
    /\ \E recs \in Outputs(Current.algorithm, Current.data_size) :
          LET df_eval == DfEval(recs)
              err == DispatchError(Current.algorithm, df_eval)
          IN /\ output' = Written(Len(invocations) + 1, TRUE, recs)
             /\ invocations' = Append(invocations, Call(Current, TRUE))
             /\ IF err = "none"
                THEN /\ df_results' =
                          AppendRow(df_results,
                                    DfResult(Current.data_size,
                                             Current.algorithm, df_eval))
                     /\ pos' = pos + 1
                     /\ UNCHANGED <<pc, error>>
                ELSE /\ pc' = "sweep_failed"
                     /\ error' = Raised(err, IF err = "ValueError"
                                              THEN "dispatch" ELSE "df_eval")
                     /\ UNCHANGED <<pos, df_results>>
    /\ UNCHANGED <<config, temp_dir, rmtree_result>>

\* both loops are exhausted: the cell ends and the cleanup cell is next
SweepEnds ==
    /\ pc = "sweep"
    /\ pos = Total
    /\ pc' = "cleanup"
    /\ UNCHANGED <<config, pos, df_results, temp_dir, output, invocations,
                   error, rmtree_result>>

----------------------------------------------------------------------------
(* Cleanup, cell 5.  errno is not imported by cell 1, so the handler's     *)
(* test exc.errno != errno.ENOENT raises NameError whenever it is reached. *)

\* variant of CleanupRemoves: only the file output_path is removed
CleanupRemovesFileOnly ==
    /\ pc = "cleanup"
    /\ temp_dir
    /\ output' = NoFile
    /\ rmtree_result' = "removed"
    /\ pc' = "done"
    /\ UNCHANGED <<config, pos, df_results, invocations, error, temp_dir>>

\* shutil.rmtree(temp_path) removes the directory and the file in it
CleanupRemoves ==
    /\ pc = "cleanup"
    /\ temp_dir
    /\ temp_dir' = FALSE
    /\ output' = NoFile
    /\ rmtree_result' = "removed"
    /\ pc' = "done"
    /\ UNCHANGED <<config, pos, df_results, invocations, error>>

\* shutil.rmtree(temp_path) raises OSError with errno ENOENT
CleanupDirectoryAbsent ==
    /\ pc = "cleanup"
    /\ ~temp_dir
    /\ rmtree_result' = "ENOENT"
    /\ pc' = "cleanup_failed"
    /\ error' = Raised("NameError", "cleanup")
    /\ UNCHANGED <<config, pos, df_results, temp_dir, output, invocations>>

\* shutil.rmtree(temp_path) raises OSError with another errno; the file in
\* the directory may or may not have been removed by then
CleanupRemovalFails ==
    /\ pc = "cleanup"
    /\ temp_dir
    /\ rmtree_result' = "EACCES"
    /\ output' \in {output, NoFile}
    /\ pc' = "cleanup_failed"
    /\ error' = Raised("NameError", "cleanup")
    /\ UNCHANGED <<config, pos, df_results, temp_dir, invocations>>

\* temp_path lies in the system's temporary area: something other than the
\* notebook removes it while the notebook runs
DirectoryRemovedOutside ==
    /\ pc \in {"sweep", "cleanup"}
    /\ temp_dir
    /\ temp_dir' = FALSE
    /\ output' = NoFile
    /\ UNCHANGED <<config, pc, pos, df_results, invocations, error,
                   rmtree_result>>

Next ==
    \/ UnmappedAlgorithm
    \/ ExecuteFails
    \/ Iteration
    \/ SweepEnds
    \/ CleanupRemoves
    \/ CleanupDirectoryAbsent
    \/ CleanupRemovalFails
    \/ DirectoryRemovedOutside

Spec == Init /\ [][Next]_vars

TypeOK ==
    /\ pc \in {"sweep", "sweep_failed", "cleanup", "cleanup_failed", "done"}
    /\ pos \in 0..Total
    /\ temp_dir \in BOOLEAN
    /\ rmtree_result \in {"none", "removed", "ENOENT", "EACCES"}

----------------------------------------------------------------------------
(* Properties *)

Last(s) == s[Len(s)]

\* the position of x in the list s
Idx(s, x) == CHOOSE p \in DOMAIN s : s[p] = x

\* the sweep cell ran to its end
SweepCompleted == pc \in {"cleanup", "cleanup_failed", "done"}

\* the rows of the table for the pair (d, a)
RowsOf(d, a) ==
    {r \in DOMAIN df_results :
        df_results[r].Data = d /\ df_results[r].Algo = a}

\* C1: once the sweep has run to its end (every invocation succeeded and
\* every identifier was recognized), the table holds
\* |data_sizes| x |algorithms| rows, exactly one for each pair.
C1_OneRowPerPair ==
    SweepCompleted =>
        /\ Len(df_results) = Len(data_sizes) * Len(algorithms)
        /\ \A p \in DOMAIN data_sizes : \A q \in DOMAIN algorithms :
              Cardinality(RowsOf(data_sizes[p], algorithms[q])) = 1

C1_Witness ==
    /\ pc = "cleanup"
    /\ Len(data_sizes) = 2
    /\ Len(algorithms) = 2
    /\ Len(df_results) = 4

\* row r1 belongs to a pair the nested loops visit before the pair of r2
Before(r1, r2) ==
    \/ Idx(data_sizes, r1.Data) < Idx(data_sizes, r2.Data)
    \/ /\ r1.Data = r2.Data
       /\ Idx(algorithms, r1.Algo) < Idx(algorithms, r2.Algo)

\* C2: at every point of the sweep the table is, in order, the rows of the
\* pairs processed so far, datasets outer and algorithms inner: one row per
\* completed iteration, row p precedes row q exactly when its pair comes
\* first in that order, and no pair before a row's pair is left out.
C2_SweepOrder ==
    /\ Len(df_results) = pos
    /\ \A p, q \in DOMAIN df_results :
          p < q <=> Before(df_results[p], df_results[q])
    /\ \A r \in DOMAIN df_results :
          \A p \in DOMAIN data_sizes : \A q \in DOMAIN algorithms :
              Before([Data |-> data_sizes[p], Algo |-> algorithms[q]],
                     df_results[r])
              => RowsOf(data_sizes[p], algorithms[q]) # {}

C2_Witness ==
    /\ pc = "sweep"
    /\ Len(data_sizes) = 2
    /\ Len(algorithms) = 2
    /\ Len(df_results) = 3

\* C3: every row of "sar", "rbm" or "ncf" has not-a-number in RMSE, MAE, R2
\* and Explained Variance, whatever the notebook reported.
C3_RankingOnlyRowsNaN ==
    \A r \in DOMAIN df_results :
        df_results[r].Algo \in {"sar", "rbm", "ncf"} =>
            /\ df_results[r].RMSE = NaN
            /\ df_results[r].MAE = NaN
            /\ df_results[r].R2 = NaN
            /\ df_results[r].Explained_Variance = NaN

\* a row of a ranking-only algorithm whose notebook did report numbers for
\* the four rating metrics
C3_Witness ==
    /\ df_results # <<>>
    /\ Last(df_results).Algo \in {"sar", "rbm", "ncf"}
    /\ output.by = Len(df_results)
    /\ \A f \in {"rmse", "mae", "rsquared", "exp_var"} :
          f \in DOMAIN output.recs /\ output.recs[f] # NaN

\* the column of a row that holds the output named f
FieldOf(row, f) ==
    CASE f = "map" -> row.MAP
      [] f = "ndcg" -> row.nDCG_at_k
      [] f = "precision" -> row.Precision_at_k
      [] f = "recall" -> row.Recall_at_k
      [] f = "rmse" -> row.RMSE
      [] f = "mae" -> row.MAE
      [] f = "rsquared" -> row.R2
      [] f = "exp_var" -> row.Explained_Variance
      [] f = "train_time" -> row.Train_time
      [] f = "test_time" -> row.Test_time

\* the output notebook in the file holds value v under the name f, in
\* whatever letter case
Reported(file, f, v) ==
    \E n \in DOMAIN file.recs : Lower(n) = f /\ file.recs[n] = v

\* C4: a step that appends a row of "als", "svd" or "fast" fills each of the
\* ten metric fields with the value the notebook just executed reported
\* under the corresponding name.
C4_RatingAwareRowsPopulated ==
    [][(/\ Len(df_results') = Len(df_results) + 1
        /\ Last(df_results').Algo \in {"als", "svd", "fast"})
       => /\ output'.ok
          /\ output'.by = Len(invocations')
          /\ \A f \in {"map", "ndcg", "precision", "recall", "rmse", "mae",
                       "rsquared", "exp_var", "train_time", "test_time"} :
                Reported(output', f, FieldOf(Last(df_results'), f))]_vars

C4_Witness ==
    /\ df_results # <<>>
    /\ Last(df_results).Algo \in {"als", "svd", "fast"}
    /\ output.by = Len(df_results)
    /\ Last(df_results).RMSE # NaN
    /\ Last(df_results).RMSE = output.recs["rmse"]

\* the identifiers of the list that are not keys of the mapping
Unmapped == {q \in DOMAIN algorithms : algorithms[q] \notin DOMAIN notebooks}

FirstUnmapped == CHOOSE q \in Unmapped : \A r \in Unmapped : q <= r

UnmappedRaised == error = Raised("KeyError", "notebooks")

\* C5 as stated: when the error for an identifier absent from the mapping
\* is raised, the table is empty.
C5_EmptyWhenRaised == UnmappedRaised => df_results = <<>>

\* C5 as amended: no notebook is invoked and no row is appended for an
\* identifier absent from the mapping, the table never grows past the rows
\* of the pairs before the first such identifier, and when the error is
\* raised the table holds exactly those rows.
C5_RaisedOnReach ==
    /\ \A n \in DOMAIN invocations :
          invocations[n].algorithm \in DOMAIN notebooks
    /\ \A r \in DOMAIN df_results : df_results[r].Algo \in DOMAIN notebooks
    /\ Unmapped # {} => Len(df_results) <= FirstUnmapped - 1
    /\ UnmappedRaised =>
          /\ pc = "sweep_failed"
          /\ Unmapped # {}
          /\ Len(df_results) = FirstUnmapped - 1
          /\ Len(invocations) = FirstUnmapped - 1

C5_Witness ==
    /\ UnmappedRaised
    /\ Len(df_results) = 1

\* the run is over
Ended == pc \in {"sweep_failed", "cleanup_failed", "done"}

\* C6 as stated: after the run, completed or aborted, the scratch directory
\* does not exist.
C6_RemovedAfterAnyEnd == Ended => ~temp_dir

\* C6 as amended: once the cleanup cell has finished without raising, the
\* scratch directory and the file in it do not exist; an aborted sweep never
\* reaches the removal.
C6_RemovedAfterCleanup ==
    /\ pc = "done" => ~temp_dir /\ output = NoFile
    /\ pc = "sweep_failed" => rmtree_result = "none"

C6_Witness ==
    /\ pc = "done"
    /\ rmtree_result = "removed"
    /\ invocations # <<>>

\* C7: a directory already absent makes cleanup finish without an error;
\* any other failure of the removal is raised again as that OSError.
C7_CleanupOutcome ==
    /\ rmtree_result = "ENOENT" => pc = "done" /\ error = NoError
    /\ rmtree_result = "EACCES" => pc = "cleanup_failed"
                                   /\ error.type = "OSError"

\* C8: a failed invocation is the last one: the sweep is aborted, the rows
\* are those of the invocations before it, and from then on no notebook is
\* invoked and the table does not change; the failing step itself leaves
\* the table as it was.
C8_FailedInvocationAborts ==
    /\ [](\A n \in DOMAIN invocations :
            ~invocations[n].ok =>
                /\ n = Len(invocations)
                /\ pc = "sweep_failed"
                /\ Len(df_results) = n - 1
                /\ \A r \in DOMAIN df_results :
                      /\ df_results[r].Data =
                             invocations[r].MOVIELENS_DATA_SIZE
                      /\ df_results[r].Algo = invocations[r].algorithm)
    /\ [][/\ (\E n \in DOMAIN invocations' : ~invocations'[n].ok)
             => df_results' = df_results
          /\ (\E n \in DOMAIN invocations : ~invocations[n].ok)
             => invocations' = invocations]_vars

C8_Witness ==
    /\ error.type = "PapermillExecutionError"
    /\ ~Last(invocations).ok
    /\ Len(df_results) >= 1
    /\ pos + 1 < Total

\* C9 as stated: when the error for an identifier of neither family is
\* raised, no notebook was invoked for that identifier, the scratch file
\* was not written for it and no row holds it.
C9_NoRunForUnrecognized ==
    error.type = "ValueError" =>
        /\ \A n \in DOMAIN invocations :
              invocations[n].algorithm # Current.algorithm
        /\ output.by = Len(df_results)
        /\ RowsOf(Current.data_size, Current.algorithm) = {}

\* C9 as amended: no row ever holds an identifier of neither family; when
\* the error is raised, the notebook of that identifier has just been
\* invoked, successfully, and the scratch file holds its output, and the
\* table holds the rows of the pairs before it and no other.
C9_RaisedAfterRun ==
    /\ \A r \in DOMAIN df_results :
          df_results[r].Algo \in {"als", "svd", "fast", "sar", "rbm", "ncf"}
    /\ error.type = "ValueError" =>
          /\ pc = "sweep_failed"
          /\ Current.algorithm \in DOMAIN notebooks
          /\ Current.algorithm \notin
                 {"als", "svd", "fast", "sar", "rbm", "ncf"}
          /\ Len(invocations) = pos + 1
          /\ Last(invocations).ok
          /\ Last(invocations).algorithm = Current.algorithm
          /\ Last(invocations).MOVIELENS_DATA_SIZE = Current.data_size
          /\ output.ok /\ output.by = Len(invocations)
          /\ Len(df_results) = pos
          /\ RowsOf(Current.data_size, Current.algorithm) = {}

C9_Witness ==
    /\ error.type = "ValueError"
    /\ Len(df_results) >= 1
    /\ pos + 1 < Total

\* the outputs the interface lists for an algorithm
Expected(a) ==
    {"map", "ndcg", "precision", "recall", "train_time", "test_time"}
    \cup (IF a \in {"als", "svd", "fast"}
          THEN {"rmse", "mae", "rsquared", "exp_var"} ELSE {})

\* the output notebook in the file has no record named f in any letter case
Lacks(file, f) == \A n \in DOMAIN file.recs : Lower(n) # f

\* C10: when the notebook executed last, for a recognized algorithm, left an
\* output that lacks an expected field, the sweep has failed at the lookup,
\* that invocation is the last one and the table holds no row for its pair.
C10_MissingFieldAborts ==
    \A n \in DOMAIN invocations :
        (/\ invocations[n].ok
         /\ output.ok /\ output.by = n
         /\ invocations[n].algorithm \in
                {"als", "svd", "fast", "sar", "rbm", "ncf"}
         /\ \E f \in Expected(invocations[n].algorithm) : Lacks(output, f))
        => /\ pc = "sweep_failed"
           /\ error = Raised("KeyError", "df_eval")
           /\ n = Len(invocations)
           /\ Len(df_results) = n - 1
           /\ RowsOf(invocations[n].MOVIELENS_DATA_SIZE,
                     invocations[n].algorithm) = {}

C10_Witness ==
    /\ error = Raised("KeyError", "df_eval")
    /\ Len(df_results) >= 1
    /\ pos + 1 < Total
    /\ \E f \in Expected(Current.algorithm) : Lacks(output, f)

\* the dataset label of the n-th iteration of the nested loops
LabelAt(n) == data_sizes[((n - 1) \div Len(algorithms)) + 1]

\* the algorithm identifier of the n-th iteration of the nested loops
AlgoAt(n) == algorithms[((n - 1) % Len(algorithms)) + 1]

\* C11: the n-th invocation runs the notebook of the n-th pair with the
\* parameters TOP_K = k and MOVIELENS_DATA_SIZE = the label of that pair;
\* the row of that pair holds the same label, that algorithm and the same
\* K, so K is the same in every row.
C11_ParametersAndKeys ==
    /\ \A n \in DOMAIN invocations :
          /\ invocations[n].notebook = notebooks[AlgoAt(n)]
          /\ invocations[n].MOVIELENS_DATA_SIZE = LabelAt(n)
          /\ invocations[n].TOP_K = k
    /\ \A r \in DOMAIN df_results :
          /\ r \in DOMAIN invocations
          /\ df_results[r].Data = invocations[r].MOVIELENS_DATA_SIZE
          /\ df_results[r].Data = LabelAt(r)
          /\ df_results[r].Algo = AlgoAt(r)
          /\ df_results[r].K = invocations[r].TOP_K
    /\ \A r1, r2 \in DOMAIN df_results : df_results[r1].K = df_results[r2].K

C11_Witness ==
    /\ Len(df_results) = 3
    /\ Len(algorithms) = 2
    /\ df_results[1].Data # df_results[3].Data
    /\ invocations[3].MOVIELENS_DATA_SIZE = df_results[3].Data

\* C12: no step changes a row that is in the table: every row keeps its
\* position and all its fields, so the table before a step is a prefix of
\* the table after it, whether the step is an iteration, an abort or the
\* cleanup.
C12_RowsImmutable ==
    [][/\ Len(df_results') >= Len(df_results)
       /\ \A r \in DOMAIN df_results : df_results'[r] = df_results[r]]_vars

\* the cleanup has run after a sweep that appended several rows
C12_Witness ==
    /\ pc \in {"done", "cleanup_failed"}
    /\ Len(df_results) >= 2

\* the other spelling of a recorded name
Flip(n) == IF n \in Fields THEN Upper(n) ELSE Lower(n)

\* the names of S can be spelled the other way without meeting a name that
\* is recorded already
CanRespell(recs, S) == \A n \in S : Flip(n) \notin DOMAIN recs \ S

\* the records with the names of S spelled the other way
Respelled(recs, S) ==
    [m \in (DOMAIN recs \ S) \cup {Flip(n) : n \in S} |->
        IF m \in DOMAIN recs \ S THEN recs[m] ELSE recs[Flip(m)]]

\* the outputs that differ from recs only in the letter case of at most
\* MaxRespelled field names
CaseVariants(recs) ==
    {Respelled(recs, S) :
        S \in {T \in SUBSET DOMAIN recs :
                  Cardinality(T) <= MaxRespelled /\ CanRespell(recs, T)}}

\* C13: a notebook whose recorded outputs differ from those of the notebook
\* just executed only in the letter case of field names gives the same
\* outcome for the pair: the same row, or the same failure of the lookup.
C13_CaseInsensitiveNames ==
    (/\ invocations # <<>>
     /\ output.ok
     /\ output.by = Len(invocations)
     /\ Last(invocations).algorithm \in
            {"als", "svd", "fast", "sar", "rbm", "ncf"})
    => \A v \in CaseVariants(output.recs) :
          LET a == Last(invocations).algorithm
              d == Last(invocations).MOVIELENS_DATA_SIZE
              err == DispatchError(a, DfEval(v))
          IN IF err = "none"
             THEN /\ Len(df_results) = Len(invocations)
                  /\ Last(df_results) = DfResult(d, a, DfEval(v))
             ELSE /\ pc = "sweep_failed"
                  /\ error.type = err
                  /\ Len(df_results) = Len(invocations) - 1

\* a row built from an output that records map as MAP
C13_Witness ==
    /\ df_results # <<>>
    /\ output.ok
    /\ output.by = Len(df_results)
    /\ "MAP" \in DOMAIN output.recs
    /\ "map" \notin DOMAIN output.recs
    /\ Last(df_results).MAP = output.recs["MAP"]

\* the reported value v comes from the run of algorithm a on dataset d
FromRun(v, a, d) == v[1] = "num" /\ v[2] = a /\ v[3] = d

\* C14: every value a row holds, other than the not-a-number sentinel, was
\* reported by the run of the row's own algorithm on the row's own dataset,
\* never by the run of another pair whose output was left in the file; and
\* after an iteration that appended a row, the file holds the output of
\* the invocation for that row's pair.
C14_RowFromOwnOutput ==
    /\ \A r \in DOMAIN df_results :
          \A f \in {"map", "ndcg", "precision", "recall", "rmse", "mae",
                    "rsquared", "exp_var", "train_time", "test_time"} :
              FieldOf(df_results[r], f) # NaN
              => FromRun(FieldOf(df_results[r], f),
                         df_results[r].Algo, df_results[r].Data)
    /\ (pc = "sweep" /\ df_results # <<>> /\ output # NoFile)
       => /\ output.ok
          /\ output.by = Len(df_results)
          /\ \A n \in DOMAIN output.recs :
                FromRun(output.recs[n], Last(df_results).Algo,
                        Last(df_results).Data)

\* the file has been overwritten by the invocation of a second pair and the
\* row of that pair is in the table
C14_Witness ==
    /\ Len(df_results) >= 2
    /\ output.ok
    /\ output.by = Len(df_results)
    /\ df_results[1].Algo # Last(df_results).Algo
    /\ FromRun(Last(df_results).MAP, Last(df_results).Algo,
               Last(df_results).Data)

====
